---- MODULE Spec2Model ----
(***************************************************************************)
(* The S3 access layer of AWS-S3-Visualizer, src/src/hooks/useS3System.js: *)
(* listing, default-folder seeding, folder creation, upload, recursive     *)
(* delete and rename (copy, then delete) over a flat key/value bucket.     *)
(*                                                                         *)
(* A JavaScript string is a sequence of one-character strings, so that     *)
(* startsWith, endsWith, trim, replace and the two name grammars are       *)
(* computed character by character, as the code computes them.  The bucket *)
(* is a function from keys to bodies; every awaited SDK request is one     *)
(* step of the call that issues it, and may fail.                          *)
(***************************************************************************)
EXTENDS Integers, Sequences, FiniteSets, TLC

VARIABLES store, cache, call, budget

vars == <<store, cache, call, budget>>

---------------------------------------------------------------------------
\* Bounds of the model.

\* Keys returned by one ListObjectsV2 page (S3's default MaxKeys is 1000).
PageSize == 2

\* Mutation calls one client issues in a behaviour, from any bucket of
\* InitialStores.
MaxCalls == 1

\* Times the application is opened, and seeds, in a behaviour of SeedSpec.
MaxSeedRuns == 2

\* Rename calls each of the two clients issues in a behaviour of RaceSpec.
MaxRaceCalls == 1

\* Length of the longest folder name typed in a behaviour of NameSpec.
MaxNameLen == 3

---------------------------------------------------------------------------
\* Characters and strings.

\* The characters of the model in ascending code-point order: S3 lists keys in
\* the binary order of their UTF-8 bytes.
Alphabet ==
  <<" ", "\"", "$", "&", "*", ".", "/", ":", "<", ">", "?", "\\",
    "a", "b", "c", "d", "n", "t", "x", "y", "|">>

Code(c) == CHOOSE i \in 1..Len(Alphabet) : Alphabet[i] = c

Min(a, b) == IF a < b THEN a ELSE b

\* s < t in the binary order of keys.
Less(s, t) ==
  \E i \in 1..(Min(Len(s), Len(t)) + 1) :
    /\ \A k \in 1..(i - 1) : s[k] = t[k]
    /\ \/ i > Len(s) /\ i <= Len(t)
       \/ i <= Len(s) /\ i <= Len(t) /\ Code(s[i]) < Code(t[i])

\* String.prototype.startsWith / endsWith.
StartsWith(s, p) == Len(p) <= Len(s) /\ SubSeq(s, 1, Len(p)) = p

EndsWith(s, p) == Len(p) <= Len(s) /\ SubSeq(s, Len(s) - Len(p) + 1, Len(s)) = p

\* String.prototype.slice(n) for 0 <= n.
Slice(s, n) == SubSeq(s, n + 1, Len(s))

\* String.prototype.indexOf, 1-based; 0 when pat does not occur in s.
IndexOf(s, pat) ==
  LET hits == {i \in 1..(Len(s) - Len(pat) + 1) : SubSeq(s, i, i + Len(pat) - 1) = pat}
  IN  IF hits = {} THEN 0 ELSE CHOOSE i \in hits : \A k \in hits : i <= k

\* \s of the regular expressions, over the model's characters.
IsSpace(c) == c = " "

\* String.prototype.trim.
RECURSIVE TrimLeft(_)
TrimLeft(s) == IF s # <<>> /\ IsSpace(Head(s)) THEN TrimLeft(Tail(s)) ELSE s

RECURSIVE TrimRight(_)
TrimRight(s) ==
  IF s # <<>> /\ IsSpace(s[Len(s)]) THEN TrimRight(SubSeq(s, 1, Len(s) - 1)) ELSE s

Trim(s) == TrimRight(TrimLeft(s))

\* The replacement text of String.prototype.replace(pattern, replacement) with a
\* string pattern: in the replacement, $$ is a dollar sign, $& the matched text,
\* $` the text before the match and $' the text after it; any other character,
\* a lone $ included, stands for itself.
RECURSIVE GetSubstitution(_, _, _, _)
GetSubstitution(repl, matched, before, after) ==
  IF repl = <<>> THEN <<>>
  ELSE IF Head(repl) = "$" /\ Len(repl) >= 2 /\ repl[2] \in {"$", "&", "`", "'"}
  THEN (CASE repl[2] = "$" -> <<"$">>
          [] repl[2] = "&" -> matched
          [] repl[2] = "`" -> before
          [] repl[2] = "'" -> after)
       \o GetSubstitution(Slice(repl, 2), matched, before, after)
  ELSE <<Head(repl)>> \o GetSubstitution(Tail(repl), matched, before, after)

\* String.prototype.replace(pat, repl) with a string pattern: the first
\* occurrence of pat only.
Replace(s, pat, repl) ==
  LET i == IndexOf(s, pat)
  IN  IF i = 0 THEN s
      ELSE LET before == SubSeq(s, 1, i - 1)
               after  == SubSeq(s, i + Len(pat), Len(s))
           IN  before \o GetSubstitution(repl, pat, before, after) \o after

---------------------------------------------------------------------------
\* Name grammars (useS3System.js, isValidFileName and isValidFolderName).

\* [A-Za-z]
IsLetter(c) == c \in {"a", "b", "c", "d", "n", "t", "x", "y"}

\* \w
IsWord(c) == IsLetter(c) \/ c \in {"0", "1", "2", "3", "4", "5", "6", "7", "8", "9", "_"}

\* [\w,\s-]
IsFileNameChar(c) == IsWord(c) \/ c = "," \/ IsSpace(c) \/ c = "-"

\* The characters the inner class of the folder grammar excludes:
\* [^\x00-\x1f\\?*:"";<>|\/] (the model has no control characters).
FolderIllegal == {"\\", "?", "*", ":", "\"", ";", "<", ">", "|", "/"}

\* The first and the last class exclude white space, ^ and . as well:
\* [^\s^\x00-\x1f\\?*:"";<>|\/.]
IsFolderEdgeChar(c) == ~IsSpace(c) /\ c \notin (FolderIllegal \cup {"^", "."})

IsFolderInnerChar(c) == c \notin FolderIllegal

\* /^[\w,\s-]+\.[A-Za-z]{3}$/ : one or more name characters, a period, exactly
\* three letters.
MatchesFileName(s) ==
  /\ Len(s) >= 5
  /\ \A i \in 1..(Len(s) - 4) : IsFileNameChar(s[i])
  /\ s[Len(s) - 3] = "."
  /\ \A i \in (Len(s) - 2)..Len(s) : IsLetter(s[i])

\* /^E I* E+$/ with E the edge class and I the inner class: at least two
\* characters, the first and the last of the edge class, the rest inner.
MatchesFolderName(s) ==
  /\ Len(s) >= 2
  /\ IsFolderEdgeChar(s[1])
  /\ IsFolderEdgeChar(s[Len(s)])
  /\ \A i \in 2..(Len(s) - 1) : IsFolderInnerChar(s[i])

\* fileName && regex.test(fileName.trim()): the empty string is falsy.
isValidFileName(fileName) == fileName # <<>> /\ MatchesFileName(Trim(fileName))

isValidFolderName(folderName) == folderName # <<>> /\ MatchesFolderName(Trim(folderName))

---------------------------------------------------------------------------
\* The bucket.  store maps each existing key to its body; a body is identified
\* with its length in bytes, so Size is the body itself and a folder marker,
\* put without a body, is 0.

Size(body) == body

KeysUnder(st, prefix) == {k \in DOMAIN st : StartsWith(k, prefix)}

\* A set of strings as the sequence S3 lists it in.
RECURSIVE SortKeys(_)
SortKeys(S) ==
  IF S = {} THEN <<>>
  ELSE LET m == CHOOSE x \in S : \A y \in S \ {x} : Less(x, y)
       IN  <<m>> \o SortKeys(S \ {m})

\* With a delimiter a key whose rest after the prefix holds the delimiter is
\* rolled up into the common prefix that ends at the first delimiter.
RollUp(k, prefix, delimiter) ==
  LET rest == Slice(k, Len(prefix))
      i    == IndexOf(rest, delimiter)
  IN  IF delimiter = <<>> \/ i = 0 THEN k ELSE prefix \o SubSeq(rest, 1, i)

\* The response of ListObjectsV2Command {Prefix, Delimiter, MaxKeys,
\* ContinuationToken}: at most maxKeys entries (keys and common prefixes
\* together) in key order, after the token's place.  delimiter and token are
\* <<>> when the request has none; the token is <<e>>, e the last entry of the
\* page before.  The SDK leaves Contents and CommonPrefixes undefined when the
\* page has none, which is why the code reads them with ?. elsewhere:
\* hasContents and hasCommonPrefixes say whether the field is defined.
ListObjectsV2(st, prefix, delimiter, maxKeys, token) ==
  LET entries == {RollUp(k, prefix, delimiter) : k \in KeysUnder(st, prefix)}
      rest    == IF token = <<>> THEN entries
                 ELSE {e \in entries : Less(token[1], e)}
      sorted  == SortKeys(rest)
      page    == SubSeq(sorted, 1, Min(maxKeys, Len(sorted)))
      isKey(e) == /\ e \in DOMAIN st
                  /\ \/ delimiter = <<>>
                     \/ IndexOf(Slice(e, Len(prefix)), delimiter) = 0
      contents == SelectSeq(page, isKey)
      commons  == SelectSeq(page, LAMBDA e : ~isKey(e))
      trunc    == Len(sorted) > maxKeys
  IN  [Contents              |-> [i \in 1..Len(contents) |->
                                    [Key |-> contents[i], Size |-> Size(st[contents[i]])]],
       hasContents           |-> contents # <<>>,
       CommonPrefixes        |-> commons,
       hasCommonPrefixes     |-> commons # <<>>,
       IsTruncated           |-> trunc,
       NextContinuationToken |-> IF trunc THEN <<page[Len(page)]>> ELSE <<>>]

\* Object keys of a response's Contents.
KeysOf(contents) == [i \in 1..Len(contents) |-> contents[i].Key]

\* PutObjectCommand {Key, Body}.
PutObject(st, key, body) == [k \in DOMAIN st \cup {key} |-> IF k = key THEN body ELSE st[k]]

\* A copy that would not overwrite: the first writer wins.
CopyObjectIfAbsent(st, source, key) ==
  IF key \in DOMAIN st THEN st ELSE [k \in DOMAIN st \cup {key} |-> IF k = key THEN st[source] ELSE st[k]]

\* CopyObjectCommand {CopySource, Key}: S3 rejects it when the source is absent.
CanCopy(st, source) == source \in DOMAIN st

CopyObject(st, source, key) == PutObject(st, key, st[source])

\* DeleteObjectsCommand {Delete: {Objects}}: absent keys are ignored.
DeleteObjects(st, keys) == [k \in DOMAIN st \ keys |-> st[k]]

Range(f) == {f[i] : i \in DOMAIN f}

---------------------------------------------------------------------------
\* Inputs of the model: the names and prefixes the UI passes in.

Root == <<>>

\* Prefixes the application is opened at, and seeds.
Prefixes == {Root, <<"d", "/">>}

\* The prefix the dialogs of the model act in.
CurrentPrefixes == {Root}

\* The canonical folder names (seven in the code, two short ones here).
defaultFolders == << <<"n">>, <<"y">> >>

\* Bucket contents before the application starts: any subset of these objects.
InitialObjects ==
  (<<"a">> :> 1) @@ (<<"a", ".", "t", "x", "t">> :> 2) @@
  (<<"a", ".", "t", "x", "t", "x">> :> 3) @@
  (<<"a", "b", "/">> :> 0) @@ (<<"a", "b", "/", "x">> :> 1) @@
  (<<"a", "b", "/", "y">> :> 2)

InitialStores == {[k \in S |-> InitialObjects[k]] : S \in SUBSET DOMAIN InitialObjects}

\* Bucket contents before the application is first opened, under SeedSpec.
SeedObjects ==
  (<<"a">> :> 1) @@ (<<"n", "/">> :> 0) @@ (<<"n", "/", "x">> :> 1) @@
  (<<"y", "/", "x">> :> 1) @@ (<<"d", "/", "y", "/">> :> 0)

SeedStores == {[k \in S |-> SeedObjects[k]] : S \in SUBSET DOMAIN SeedObjects}

\* Files offered for upload: a name and a body.
Files ==
  {[name |-> <<"b", ".", "t", "x", "t">>, body |-> 4], [name |-> <<"a">>, body |-> 0]}

\* Names typed into the create-folder and rename dialogs.
FolderNames == {<<"c", "d">>, <<"$", "$", "$">>, <<"c">>}

FileNames == {<<"a", ".", "t", "x", "t">>, <<"b", ".", "t", "x", "t">>, <<"a">>, <<>>}

\* Two files renamed at the same time onto one name, under RaceSpec: the bucket
\* holds any subset of these objects, the sources are x and y.
RaceObjects ==
  (<<"x">> :> 1) @@ (<<"y">> :> 2) @@ (<<"b", ".", "t", "x", "t">> :> 4)

RaceStores == {[k \in S |-> RaceObjects[k]] : S \in SUBSET DOMAIN RaceObjects}

RaceOldNames == {<<"x">>, <<"y">>}

RaceNewNames == {<<"b", ".", "t", "x", "t">>, <<"a", ".", "t", "x", "t">>}

\* Folder names typed into the create-folder dialog, under NameSpec: every
\* string of these characters up to MaxNameLen long.
NameChars == {" ", ".", "/", "\\", ":", "*", "?", "\"", "<", ">", "|", "c", "d"}

TypedNames == UNION {[1..n -> NameChars] : n \in 0..MaxNameLen}

\* A folder renamed, under FolderSpec: the bucket holds any subset of these
\* objects, with or without the folder's marker, and more objects than a page.
FolderObjects ==
  (<<"a", "b", "/">> :> 0) @@ (<<"a", "b", "/", "d">> :> 3) @@
  (<<"a", "b", "/", "x">> :> 1) @@ (<<"a", "b", "/", "y">> :> 2) @@
  (<<"a", "b", "/", "c", "/">> :> 0) @@ (<<"a", "b", "/", "c", "/", "x">> :> 4)

FolderStores == {[k \in S |-> FolderObjects[k]] : S \in SUBSET DOMAIN FolderObjects}

FolderOldNames == {<<"a", "b">>}

FolderNewNames == {<<"c", "d">>}

\* Entries selected for rename or delete.
OldNames == {<<"a">>, <<"a", ".", "t", "x", "t">>, <<"a", "b">>}

DeletePrefixes == {<<"a", "b", "/">>, <<"a">>, <<"c", "d", "/">>}

\* Prefixes the UI shows listings of.
ListPrefixes == {Root, <<"a", "b", "/">>}

\* The mutations in flight at one time: client 1 is the only one that issues
\* calls under Spec.
Clients == {1, 2}

---------------------------------------------------------------------------
\* Listing and the query cache.

\* excludeRegex.test(key): VITE_EXCLUDE_PATTERN is unset, and /(?!)/ matches
\* nothing.
excludeRegex(key) == FALSE

\* The marker filter left out of listContents.
IsFolderMarkerNever(o) == FALSE

\* Size === 0 && Key.endsWith("/"): a zero-byte placeholder of a folder.
IsFolderMarker(o) == o.Size = 0 /\ EndsWith(o.Key, <<"/">>)

\* listContents(prefix): the first page of a delimiter listing, folder markers
\* dropped from the objects (url and lastModified are left out).
listContents(st, prefix) ==
  LET data == ListObjectsV2(st, prefix, <<"/">>, PageSize, <<>>)
      notMarker(o) == ~IsFolderMarker(o)
      filteredContents == IF data.hasContents THEN SelectSeq(data.Contents, notMarker)
                          ELSE <<>>
      shownFolders == IF data.hasCommonPrefixes
                      THEN SelectSeq(data.CommonPrefixes, LAMBDA cp : ~excludeRegex(cp))
                      ELSE <<>>
      shownObjects == SelectSeq(filteredContents, LAMBDA o : ~excludeRegex(o.Key))
  IN  [folders |-> [i \in 1..Len(shownFolders) |->
                      [name |-> Slice(shownFolders[i], Len(prefix)),
                       path |-> shownFolders[i]]],
       objects |-> [i \in 1..Len(shownObjects) |->
                      [name |-> Slice(shownObjects[i].Key, Len(prefix)),
                       size |-> shownObjects[i].Size,
                       path |-> shownObjects[i].Key]]]

\* The query cache: for each listing query ["contents", prefix], the data its
\* last fetch returned and whether that data is still valid.
NotCached == [valid |-> FALSE, data |-> [folders |-> <<>>, objects |-> <<>>]]

\* queryClient.invalidateQueries(["contents"]): every listing query is marked
\* invalid, whatever its prefix; the data stays until the query is fetched again.
invalidateQueries(c) == [p \in DOMAIN c |-> [c[p] EXCEPT !.valid = FALSE]]

\* A hook without its onSuccess callback.
onSuccessMissing(op, c) == c

\* The onSuccess callback of the five mutation hooks: each invalidates.
onSuccess(op, c) == invalidateQueries(c)

---------------------------------------------------------------------------
\* Calls.  call[c] is the mutation client c has in flight, or its last one:
\* the arguments, the locals of the async functions, the place it waits at
\* (pc), the requests it has issued (log), the bucket as it was when the call
\* began (pre), the prefix the call before it seeded, if it was a seeding that
\* resolved (seeded), the listings that were valid when it settled (seen), and
\* the place of its last copy among the copies of the calls in flight (stamp).

NoCall ==
  [op |-> "none", pc |-> "idle", result |-> "none",
   name1 |-> <<>>, name2 |-> <<>>, isFolder |-> FALSE, prefix |-> <<>>, body |-> 0,
   oldKey |-> <<>>, newKey |-> <<>>, listed |-> <<>>, i |-> 0,
   src |-> <<>>, dst |-> <<>>, page |-> <<>>, j |-> 0, token |-> <<>>,
   cfPre |-> <<>>, cfPages |-> 0,
   delPrefix |-> <<>>, delKeys |-> <<>>, delTrunc |-> FALSE, batches |-> 0,
   existing |-> {}, idx |-> 0,
   log |-> <<>>, pre |-> <<>>, seeded |-> {},
   seen |-> {}, stamp |-> 0]

NewCall(c, op, name1, name2, isFolder, prefix) ==
  [NoCall EXCEPT !.op = op, !.pc = "start", !.result = "pending",
                 !.name1 = name1, !.name2 = name2, !.isFolder = isFolder,
                 !.prefix = prefix, !.pre = store,
                 !.seeded = IF call[c].op = "seed" /\ call[c].result = "resolved"
                            THEN {call[c].prefix} ELSE {}]

\* The log of a call: each request it has issued, and whether it succeeded.
Logged(r, kind) == [r EXCEPT !.log = Append(r.log, [req |-> kind, ok |-> TRUE])]

Failed(r, kind) == [r EXCEPT !.log = Append(r.log, [req |-> kind, ok |-> FALSE])]

\* The call goes on to its next await.
Continue(c, r) ==
  /\ call' = [call EXCEPT ![c] = r]
  /\ cache' = cache

\* The mutation function settles: the hook runs onSuccess when it resolved and
\* only logs when it rejected.
Settle(c, r, result) ==
  /\ call' = [call EXCEPT ![c] = [r EXCEPT !.pc = "done", !.result = result,
                                           !.seen = {p \in DOMAIN cache : cache[p].valid}]]
  /\ cache' = IF result = "resolved" THEN onSuccess(r.op, cache) ELSE cache

\* A record whose pc is "return" has run off the end of the mutation function.
Proceed(c, r) == IF r.pc = "return" THEN Settle(c, r, "resolved") ELSE Continue(c, r)

CanStart(c) ==
  /\ call[c].pc \in {"idle", "done"}
  /\ budget[c] > 0

Started(c) == budget' = [budget EXCEPT ![c] = budget[c] - 1]

\* The pcs at which the call awaits the response of a request, and the request.
RequestAt ==
  [seed_list |-> "list", seed_put |-> "put", create_put |-> "put",
   upload_put |-> "put", del_list |-> "list", del_batch |-> "delete",
   ren_check |-> "check", ren_list |-> "list", copy_one |-> "copy",
   cf_list |-> "list", cf_copy |-> "copy"]

\* A failure that undoes what the call has written.
RequestFailsRollsBack(c) ==
  /\ call[c].pc \in DOMAIN RequestAt
  /\ Settle(c, Failed(call[c], RequestAt[call[c].pc]), "StoreError")
  /\ store' = call[c].pre
  /\ UNCHANGED budget

\* A failure after which the destination of the call is removed again.
RequestFailsUndoesCopy(c) ==
  /\ call[c].pc \in DOMAIN RequestAt
  /\ Settle(c, Failed(call[c], RequestAt[call[c].pc]), "StoreError")
  /\ store' = [k \in DOMAIN store \ {call[c].newKey} |-> store[k]]
  /\ UNCHANGED budget

\* Any request may be rejected by the store or the network; nothing catches it
\* (createFolder and uploadFileToS3 log and re-throw), so the call rejects.
RequestFails(c) ==
  /\ call[c].pc \in DOMAIN RequestAt
  /\ Settle(c, Failed(call[c], RequestAt[call[c].pc]), "StoreError")
  /\ UNCHANGED <<store, budget>>

---------------------------------------------------------------------------
\* Default-folder seeding: useDefaultFolders(prefix).mutate().

UseDefaultFolders(c, prefix) ==
  /\ CanStart(c)
  /\ Started(c)
  /\ Continue(c, [NewCall(c, "seed", <<>>, <<>>, FALSE, prefix) EXCEPT !.pc = "seed_list"])
  /\ UNCHANGED store

\* cp.Prefix.replace(prefix, "").replace("/", "")
FolderNameOf(cp, prefix) == Replace(Replace(cp, prefix, <<>>), <<"/">>, <<>>)

\* The for loop over defaultFolders: the next folder to create from index idx
\* on, or the end of the function.
SeedLoop(r) ==
  LET missing == {k \in r.idx..Len(defaultFolders) : defaultFolders[k] \notin r.existing}
  IN  IF missing = {} THEN [r EXCEPT !.pc = "return"]
      ELSE [r EXCEPT !.pc = "seed_put",
                     !.idx = CHOOSE k \in missing : \A m \in missing : k <= m]

\* The delimiter listing of the prefix answers: only its first page is read.
SeedList(c) ==
  LET r == call[c]
      existingFolders == ListObjectsV2(store, r.prefix, <<"/">>, PageSize, <<>>)
      existingFolderNames ==
        IF existingFolders.hasCommonPrefixes
        THEN {FolderNameOf(cp, r.prefix) : cp \in Range(existingFolders.CommonPrefixes)}
        ELSE {}
  IN  /\ r.pc = "seed_list"
      /\ Proceed(c, SeedLoop([Logged(r, "list") EXCEPT !.existing = existingFolderNames,
                                                       !.idx = 1]))
      /\ UNCHANGED <<store, budget>>

\* The put of one missing folder's marker answers.
SeedPut(c) ==
  LET r == call[c]
  IN  /\ r.pc = "seed_put"
      /\ store' = PutObject(store, r.prefix \o defaultFolders[r.idx] \o <<"/">>, 0)
      /\ Proceed(c, SeedLoop([Logged(r, "put") EXCEPT !.idx = r.idx + 1]))
      /\ UNCHANGED budget

---------------------------------------------------------------------------
\* Folder creation: useCreateFolder().mutate({folderName, currentPrefix}).

\* createFolder without its validation.
CreateFolderUnchecked(c, folderName, currentPrefix) ==
  /\ CanStart(c)
  /\ Started(c)
  /\ Continue(c, [NewCall(c, "create", folderName, <<>>, FALSE, currentPrefix)
                    EXCEPT !.pc = "create_put",
                           !.newKey = currentPrefix \o Trim(folderName) \o <<"/">>])
  /\ UNCHANGED store

CreateFolder(c, folderName, currentPrefix) ==
  LET r == NewCall(c, "create", folderName, <<>>, FALSE, currentPrefix)
  IN  /\ CanStart(c)
      /\ Started(c)
      /\ IF ~isValidFolderName(folderName)
         THEN Settle(c, r, "Invalid folder name!")
         ELSE Continue(c, [r EXCEPT !.pc = "create_put",
                                    !.newKey = currentPrefix \o Trim(folderName) \o <<"/">>])
      /\ UNCHANGED store

CreatePut(c) ==
  LET r == call[c]
  IN  /\ r.pc = "create_put"
      /\ store' = PutObject(store, r.newKey, 0)
      /\ Settle(c, Logged(r, "put"), "resolved")
      /\ UNCHANGED budget

---------------------------------------------------------------------------
\* Upload: useUploadFile().mutate({file, prefix}).

UploadFile(c, file, prefix) ==
  /\ CanStart(c)
  /\ Started(c)
  /\ Continue(c, [NewCall(c, "upload", file.name, <<>>, FALSE, prefix)
                    EXCEPT !.pc = "upload_put", !.newKey = prefix \o file.name,
                           !.body = file.body])
  /\ UNCHANGED store

UploadPut(c) ==
  LET r == call[c]
  IN  /\ r.pc = "upload_put"
      /\ store' = PutObject(store, r.newKey, r.body)
      /\ Settle(c, Logged(r, "put"), "resolved")
      /\ UNCHANGED budget

---------------------------------------------------------------------------
\* Recursive delete: deleteFolderAndContents(prefix), called by
\* useDeleteFiles().mutate(prefix) and as the last step of renameFile.

EnterDelete(r, prefix) == [r EXCEPT !.pc = "del_list", !.delPrefix = prefix]

DeleteFiles(c, prefix) ==
  /\ CanStart(c)
  /\ Started(c)
  /\ Continue(c, EnterDelete(NewCall(c, "delete", <<>>, <<>>, FALSE, prefix), prefix))
  /\ UNCHANGED store

\* The recursion forgotten: one batch, whatever the listing said.
AfterBatchOnce(r) == [r EXCEPT !.pc = "return"]

\* After the batch delete: recurse on the same prefix when the listing was
\* truncated, else return.
AfterBatch(r) ==
  IF r.delTrunc THEN EnterDelete(r, r.delPrefix) ELSE [r EXCEPT !.pc = "return"]

\* A delete that gathers every key under the prefix into one batch.
DelListUnpaged(c) ==
  LET r == Logged(call[c], "list")
      all == SortKeys(KeysUnder(store, r.delPrefix))
  IN  /\ call[c].pc = "del_list"
      /\ IF all = <<>> THEN Settle(c, r, "TypeError")
         ELSE Continue(c, [r EXCEPT !.pc = "del_batch", !.delKeys = all,
                                    !.delTrunc = FALSE])
      /\ UNCHANGED <<store, budget>>

\* The listing of the prefix answers.  listedObjects.Contents.length throws a
\* TypeError when Contents is undefined.
DelList(c) ==
  LET r == Logged(call[c], "list")
      listedObjects == ListObjectsV2(store, r.delPrefix, <<>>, PageSize, <<>>)
  IN  /\ call[c].pc = "del_list"
      /\ IF ~listedObjects.hasContents THEN Settle(c, r, "TypeError")
         ELSE IF Len(listedObjects.Contents) = 0 THEN Settle(c, r, "resolved")
         ELSE Continue(c, [r EXCEPT !.pc = "del_batch",
                                    !.delKeys = KeysOf(listedObjects.Contents),
                                    !.delTrunc = listedObjects.IsTruncated])
      /\ UNCHANGED <<store, budget>>

\* The batch delete of the listed keys answers.
DelBatch(c) ==
  LET r == call[c]
  IN  /\ r.pc = "del_batch"
      /\ store' = DeleteObjects(store, Range(r.delKeys))
      /\ Proceed(c, AfterBatch([Logged(r, "delete") EXCEPT !.batches = r.batches + 1]))
      /\ UNCHANGED budget

---------------------------------------------------------------------------
\* Copy: copyFileOrFolders(sourceKey, destinationKey) and copyFolderContents.

\* A source key that ends in "/" is copied as a folder, from a null
\* continuation token; any other key with one CopyObject.
copyFileOrFolders(r, st, sourceKey, destinationKey) ==
  IF EndsWith(sourceKey, <<"/">>)
  THEN [r EXCEPT !.pc = "cf_list", !.src = sourceKey, !.dst = destinationKey,
                 !.token = <<>>, !.cfPre = st, !.cfPages = 0]
  ELSE [r EXCEPT !.pc = "copy_one", !.src = sourceKey, !.dst = destinationKey]

\* The loop left after its first object: the delete begins while objects are
\* still to be copied.
RenameLoopLeftEarly(r, st) ==
  IF r.i > Min(1, Len(r.listed)) THEN EnterDelete(r, r.oldKey)
  ELSE copyFileOrFolders(r, st, r.listed[r.i], Replace(r.listed[r.i], r.oldKey, r.newKey))

\* The loop of renameFile over the objects listed under the old folder; after
\* the last one, deleteFolderAndContents(oldKey).
RenameLoop(r, st) ==
  IF r.i > Len(r.listed) THEN EnterDelete(r, r.oldKey)
  ELSE copyFileOrFolders(r, st, r.listed[r.i], Replace(r.listed[r.i], r.oldKey, r.newKey))

\* copyFileOrFolders has returned to renameFile.
AfterCopy(r, st) ==
  IF r.isFolder THEN RenameLoop([r EXCEPT !.i = r.i + 1], st)
  ELSE EnterDelete(r, r.oldKey)

\* The store applies copies one at a time: the copy it applies now comes after
\* every copy of the calls in flight.
NextStamp ==
  1 + (CHOOSE m \in {call[c].stamp : c \in Clients} :
         \A c \in Clients : call[c].stamp <= m)

\* The CopyObject of a single file answers.
CopyOne(c) ==
  LET r == [Logged(call[c], "copy") EXCEPT !.stamp = NextStamp]
  IN  /\ call[c].pc = "copy_one"
      /\ IF CanCopy(store, r.src)
         THEN /\ store' = CopyObject(store, r.src, r.dst)
              /\ Continue(c, AfterCopy(r, store'))
         ELSE /\ store' = store
              /\ Settle(c, Failed(call[c], "copy"), "StoreError")
      /\ UNCHANGED budget

\* One page of the listing under the source prefix answers.  Iterating
\* listedObjects.Contents throws a TypeError when it is undefined.
CfList(c) ==
  LET r == Logged(call[c], "list")
      listedObjects == ListObjectsV2(store, r.src, <<>>, PageSize, r.token)
  IN  /\ call[c].pc = "cf_list"
      /\ IF ~listedObjects.hasContents THEN Settle(c, r, "TypeError")
         ELSE Continue(c, [r EXCEPT !.pc = "cf_copy",
                                    !.page = KeysOf(listedObjects.Contents), !.j = 1,
                                    !.token = listedObjects.NextContinuationToken,
                                    !.cfPages = r.cfPages + 1])
      /\ UNCHANGED <<store, budget>>

\* After the copy of object j of the page: the next object, the next page when
\* there is a continuation token, or the return to renameFile.
AfterPageCopy(r, st) ==
  IF r.j < Len(r.page) THEN [r EXCEPT !.j = r.j + 1]
  ELSE IF r.token # <<>> THEN [r EXCEPT !.pc = "cf_list"]
  ELSE AfterCopy(r, st)

\* The CopyObject of one object of the page answers.
CfCopy(c) ==
  LET r == [Logged(call[c], "copy") EXCEPT !.stamp = NextStamp]
      newObjectKey == Replace(r.page[r.j], r.src, r.dst)
  IN  /\ call[c].pc = "cf_copy"
      /\ IF CanCopy(store, r.page[r.j])
         THEN /\ store' = CopyObject(store, r.page[r.j], newObjectKey)
              /\ Continue(c, AfterPageCopy(r, store'))
         ELSE /\ store' = store
              /\ Settle(c, Failed(call[c], "copy"), "StoreError")
      /\ UNCHANGED budget

---------------------------------------------------------------------------
\* Rename: useRenameFile().mutate({oldKey, newKey, isFolder, currentPrefix}).

\* renameFile without its test of oldKey === newKey.
RenameFileAlways(c, oldKey, newKey, isFolder, currentPrefix) ==
  LET r == NewCall(c, "rename", oldKey, newKey, isFolder, currentPrefix)
      valid == IF isFolder THEN isValidFolderName(newKey) ELSE isValidFileName(newKey)
      slash == IF isFolder THEN <<"/">> ELSE <<>>
  IN  /\ CanStart(c)
      /\ Started(c)
      /\ IF oldKey = <<>> \/ newKey = <<>>
         THEN Settle(c, r, "New filename must be provided")
         ELSE IF ~valid THEN Settle(c, r, "Invalid file name")
         ELSE Continue(c, [r EXCEPT !.pc = "ren_check",
                                    !.oldKey = currentPrefix \o oldKey \o slash,
                                    !.newKey = currentPrefix \o newKey \o slash])
      /\ UNCHANGED store

\* renameFile up to its first await.
RenameFile(c, oldKey, newKey, isFolder, currentPrefix) ==
  LET r == NewCall(c, "rename", oldKey, newKey, isFolder, currentPrefix)
  IN  /\ CanStart(c)
      /\ Started(c)
      /\ IF oldKey = <<>> \/ newKey = <<>>
         THEN Settle(c, r, "New filename must be provided")
         ELSE IF oldKey = newKey THEN Settle(c, r, "resolved")
         ELSE IF isFolder
         THEN IF ~isValidFolderName(newKey) THEN Settle(c, r, "Invalid folder name")
              ELSE Continue(c, [r EXCEPT !.pc = "ren_check",
                                         !.oldKey = currentPrefix \o oldKey \o <<"/">>,
                                         !.newKey = currentPrefix \o newKey \o <<"/">>])
         ELSE IF ~isValidFileName(newKey) THEN Settle(c, r, "Invalid file name")
              ELSE Continue(c, [r EXCEPT !.pc = "ren_check",
                                         !.oldKey = currentPrefix \o oldKey,
                                         !.newKey = currentPrefix \o newKey])
      /\ UNCHANGED store

\* The existence check with its comparison lost: nothing ever exists.
DestinationExistsNever(checkExistence) == FALSE

\* checkExistence.Contents?.length > 0, which is false when Contents is
\* undefined.
DestinationExists(checkExistence) ==
  checkExistence.hasContents /\ Len(checkExistence.Contents) > 0

\* checkIfFileExists(newKey) answers: a listing with the new key as prefix and
\* MaxKeys 1.
RenCheck(c) ==
  LET r == Logged(call[c], "check")
      checkExistence == ListObjectsV2(store, r.newKey, <<>>, 1, <<>>)
  IN  /\ call[c].pc = "ren_check"
      /\ IF DestinationExists(checkExistence)
         THEN Settle(c, r, "The destination file or folder already exists.")
         ELSE IF r.isFolder THEN Continue(c, [r EXCEPT !.pc = "ren_list"])
         ELSE Continue(c, copyFileOrFolders(r, store, r.oldKey, r.newKey))
      /\ UNCHANGED <<store, budget>>

\* The listing under the old folder answers: one page, no continuation.
RenList(c) ==
  LET r == Logged(call[c], "list")
      listedObjects == ListObjectsV2(store, r.oldKey, <<>>, PageSize, <<>>)
  IN  /\ call[c].pc = "ren_list"
      /\ IF ~listedObjects.hasContents THEN Settle(c, r, "TypeError")
         ELSE Continue(c, RenameLoop([r EXCEPT !.listed = KeysOf(listedObjects.Contents),
                                               !.i = 1], store))
      /\ UNCHANGED <<store, budget>>

---------------------------------------------------------------------------
\* The listing query: useContents(prefix) fetches what the cache does not hold.

UseContents(prefix) ==
  /\ ~cache[prefix].valid
  /\ cache' = [cache EXCEPT ![prefix] = [valid |-> TRUE,
                                         data |-> listContents(store, prefix)]]
  /\ UNCHANGED <<store, call, budget>>

---------------------------------------------------------------------------
\* The specification.

Init ==
  /\ store \in InitialStores
  /\ cache = [p \in ListPrefixes |-> NotCached]
  /\ call = [c \in Clients |-> NoCall]
  /\ budget = [c \in Clients |-> IF c = 1 THEN MaxCalls ELSE 0]

Next ==
  \/ \E c \in Clients, prefix \in Prefixes : UseDefaultFolders(c, prefix)
  \/ \E c \in Clients : SeedList(c)
  \/ \E c \in Clients : SeedPut(c)
  \/ \E c \in Clients, folderName \in FolderNames, currentPrefix \in CurrentPrefixes :
       CreateFolder(c, folderName, currentPrefix)
  \/ \E c \in Clients : CreatePut(c)
  \/ \E c \in Clients, file \in Files, prefix \in CurrentPrefixes : UploadFile(c, file, prefix)
  \/ \E c \in Clients : UploadPut(c)
  \/ \E c \in Clients, prefix \in DeletePrefixes : DeleteFiles(c, prefix)
  \/ \E c \in Clients : DelList(c)
  \/ \E c \in Clients : DelBatch(c)
  \/ \E c \in Clients, oldKey \in OldNames, newKey \in FileNames \cup FolderNames,
        isFolder \in BOOLEAN, currentPrefix \in CurrentPrefixes :
       RenameFile(c, oldKey, newKey, isFolder, currentPrefix)
  \/ \E c \in Clients : RenCheck(c)
  \/ \E c \in Clients : RenList(c)
  \/ \E c \in Clients : CopyOne(c)
  \/ \E c \in Clients : CfList(c)
  \/ \E c \in Clients : CfCopy(c)
  \/ \E c \in Clients : RequestFails(c)
  \/ \E prefix \in ListPrefixes : UseContents(prefix)

Spec == Init /\ [][Next]_vars

\* The application opened again and again on a bucket, with no other mutation:
\* each opening seeds the default folders of its prefix.
InitSeed ==
  /\ store \in SeedStores
  /\ cache = [p \in ListPrefixes |-> NotCached]
  /\ call = [c \in Clients |-> NoCall]
  /\ budget = [c \in Clients |-> IF c = 1 THEN MaxSeedRuns ELSE 0]

NextSeed ==
  \/ \E c \in Clients, prefix \in Prefixes : UseDefaultFolders(c, prefix)
  \/ \E c \in Clients : SeedList(c)
  \/ \E c \in Clients : SeedPut(c)
  \/ \E c \in Clients : RequestFails(c)
  \/ \E prefix \in ListPrefixes : UseContents(prefix)

SeedSpec == InitSeed /\ [][NextSeed]_vars

\* Two clients rename files at the same time: the UI awaits no call before it
\* issues the next, and nothing orders the requests of different calls.
InitRace ==
  /\ store \in RaceStores
  /\ cache = [p \in ListPrefixes |-> NotCached]
  /\ call = [c \in Clients |-> NoCall]
  /\ budget = [c \in Clients |-> MaxRaceCalls]

NextRace ==
  \/ \E c \in Clients, oldKey \in RaceOldNames, newKey \in RaceNewNames :
       RenameFile(c, oldKey, newKey, FALSE, Root)
  \/ \E c \in Clients : RenCheck(c)
  \/ \E c \in Clients : CopyOne(c)
  \/ \E c \in Clients : DelList(c)
  \/ \E c \in Clients : DelBatch(c)
  \/ \E c \in Clients : RequestFails(c)

RaceSpec == InitRace /\ [][NextRace]_vars

\* One folder is renamed, by one client.
InitFolder ==
  /\ store \in FolderStores
  /\ cache = [p \in ListPrefixes |-> NotCached]
  /\ call = [c \in Clients |-> NoCall]
  /\ budget = [c \in Clients |-> IF c = 1 THEN MaxCalls ELSE 0]

NextFolder ==
  \/ \E c \in Clients, oldKey \in FolderOldNames, newKey \in FolderNewNames :
       RenameFile(c, oldKey, newKey, TRUE, Root)
  \/ \E c \in Clients : RenCheck(c)
  \/ \E c \in Clients : RenList(c)
  \/ \E c \in Clients : CopyOne(c)
  \/ \E c \in Clients : CfList(c)
  \/ \E c \in Clients : CfCopy(c)
  \/ \E c \in Clients : DelList(c)
  \/ \E c \in Clients : DelBatch(c)
  \/ \E c \in Clients : RequestFails(c)

FolderSpec == InitFolder /\ [][NextFolder]_vars

\* One folder is created in an empty bucket, under any typed name.
InitName ==
  /\ store = <<>>
  /\ cache = [p \in ListPrefixes |-> NotCached]
  /\ call = [c \in Clients |-> NoCall]
  /\ budget = [c \in Clients |-> IF c = 1 THEN MaxCalls ELSE 0]

NextName ==
  \/ \E c \in Clients, folderName \in TypedNames : CreateFolder(c, folderName, Root)
  \/ \E c \in Clients : CreatePut(c)
  \/ \E c \in Clients : RequestFails(c)

NameSpec == InitName /\ [][NextName]_vars

---------------------------------------------------------------------------
\* Properties.

\* The kinds of request a call has issued.
Requests(r) == {r.log[i].req : i \in 1..Len(r.log)}

Mutating == {"put", "copy", "delete"}

Conflict == "The destination file or folder already exists."

\* A file rename to another name, begun when an object existed at
\* currentPrefix + newKey.
RenamesOntoExisting(r) ==
  /\ r.op = "rename"
  /\ ~r.isFolder
  /\ r.name1 # <<>>
  /\ r.name1 # r.name2
  /\ (r.prefix \o r.name2) \in DOMAIN r.pre

\* C1: a file rename whose destination key existed when the call began issues
\* no copy and no delete, leaves the bucket exactly as it was, and rejects:
\* with the destination-exists error whenever the new name passed validation
\* and the existence check was answered.
C1_RenameOntoExistingAborts ==
  \A c \in Clients :
    LET r == call[c]
    IN  RenamesOntoExisting(r) =>
          /\ store = r.pre
          /\ Requests(r) \subseteq {"check"}
          /\ r.pc = "done" =>
               /\ r.result \in {Conflict, "Invalid file name", "StoreError"}
               /\ (isValidFileName(r.name2) /\ r.result # "StoreError") => r.result = Conflict

\* Renaming a.txt onto an existing file was rejected as a conflict, and both
\* originals are still there.
C1_Witness ==
  \E c \in Clients :
    /\ RenamesOntoExisting(call[c])
    /\ call[c].pc = "done"
    /\ call[c].result = Conflict
    /\ call[c].oldKey \in DOMAIN store
    /\ call[c].newKey \in DOMAIN store
    /\ store[call[c].oldKey] # store[call[c].newKey]

\* A file rename to another name that has resolved.
FileRenamed(r) ==
  /\ r.op = "rename"
  /\ ~r.isFolder
  /\ r.name1 # r.name2
  /\ r.pc = "done"
  /\ r.result = "resolved"

\* C2: when a file rename to another name has resolved, the new key holds the
\* body the old key held when the call began, and the old key is gone.
C2_FileRenameMovesObject ==
  \A c \in Clients :
    LET r == call[c]
    IN  FileRenamed(r) =>
          /\ r.oldKey \in DOMAIN r.pre
          /\ r.newKey \in DOMAIN store
          /\ store[r.newKey] = r.pre[r.oldKey]
          /\ r.oldKey \notin DOMAIN store

\* copyFolderContents(src, dst) of client c returns in this step: the copy of
\* the last object of the last page succeeds.
CfReturns(c) ==
  /\ call[c].pc = "cf_copy"
  /\ call[c].j = Len(call[c].page)
  /\ call[c].token = <<>>
  /\ call'[c] # call[c]
  /\ call'[c].pc # "done"

\* Every key under src when copyFolderContents was called has its body at
\* dst + (the key without the src prefix) in bucket st.
CopiedAll(r, st) ==
  \A k \in KeysUnder(r.cfPre, r.src) :
    LET target == r.dst \o Slice(k, Len(r.src))
    IN  target \in DOMAIN st /\ st[target] = r.cfPre[k]

\* C3: when a folder copy returns, every key that was under the source prefix
\* when it was called, on whatever page, has its body at the destination
\* prefix followed by the key's path relative to the source.
C3_FolderCopyPreservesStructure ==
  [][\A c \in Clients : CfReturns(c) => CopiedAll(call[c], store')]_vars

\* A recursive delete that is in flight, and one that has come to its end
\* without a request failing.
DeleteRunning(r) == r.op = "delete" /\ r.pc # "done"

DeleteEnded(r) == r.op = "delete" /\ r.pc = "done" /\ r.result # "StoreError"

\* Client c's call settles in this step: a call in flight ends, or a call
\* begins and ends at once.
Settles(c) ==
  /\ call'[c] # call[c] \/ budget'[c] # budget[c]
  /\ call'[c].pc = "done"

\* What a running delete still has to do: the keys left under its prefix, and
\* the listing it has yet to read.
DeleteMeasure(r, st) ==
  2 * Cardinality(KeysUnder(st, r.delPrefix)) + (IF r.pc = "del_list" THEN 1 ELSE 0)

\* C4: a recursive delete terminates, and when it ends without a request
\* failing no key that starts with the prefix is left, however many there were.
\* Termination: a running delete always awaits the answer of a request, and
\* every step that leaves it running lowers DeleteMeasure, which is never
\* negative.
C4_DeleteTerminatesAndEmptiesPrefix ==
  [][\A c \in Clients :
       /\ (Settles(c) /\ DeleteEnded(call'[c])) =>
            KeysUnder(store', call'[c].delPrefix) = {}
       /\ DeleteRunning(call[c]) => call[c].pc \in {"del_list", "del_batch"}
       /\ (DeleteRunning(call[c]) /\ DeleteRunning(call'[c]) /\ call'[c] # call[c]) =>
            DeleteMeasure(call'[c], store') < DeleteMeasure(call[c], store)]_vars

\* A delete of more keys than one page holds has resolved after at least two
\* batches, and nothing is left under the prefix.
C4_Witness ==
  \E c \in Clients :
    /\ DeleteEnded(call[c])
    /\ call[c].result = "resolved"
    /\ call[c].batches >= 2
    /\ Cardinality(KeysUnder(call[c].pre, call[c].delPrefix)) > PageSize
    /\ KeysUnder(store, call[c].delPrefix) = {}

\* C5: a recursive delete of a prefix under which there is no key issues no
\* batch delete, leaves the bucket as it was, and resolves.
C5_DeleteOfEmptyPrefixIsNoOp ==
  \A c \in Clients :
    LET r == call[c]
    IN  (r.op = "delete" /\ KeysUnder(r.pre, r.delPrefix) = {}) =>
          /\ store = r.pre
          /\ "delete" \notin Requests(r)
          /\ (r.pc = "done" /\ r.result # "StoreError") => r.result = "resolved"

\* A seeding that has resolved right after a seeding of the same prefix that
\* resolved.
SeededTwice(r) ==
  /\ r.op = "seed"
  /\ r.pc = "done"
  /\ r.result = "resolved"
  /\ r.seeded = {r.prefix}

\* C6: seeding is idempotent: a second run on the same prefix leaves the bucket
\* as the first run left it.
C6_SeedingIsIdempotent ==
  \A c \in Clients : SeededTwice(call[c]) => store = call[c].pre

\* The name the call was given fails the grammar its operation validates it
\* against.
GrammarFails(r) ==
  \/ r.op = "create" /\ ~isValidFolderName(r.name1)
  \/ r.op = "rename" /\ r.isFolder /\ ~isValidFolderName(r.name2)
  \/ r.op = "rename" /\ ~r.isFolder /\ ~isValidFileName(r.name2)

RenamesToItself(r) == r.op = "rename" /\ r.name1 # <<>> /\ r.name1 = r.name2

Places(r, k) == {i \in 1..Len(r.log) : r.log[i].req = k}

\* C8: in a rename the destination check is the first request and is issued
\* once; a request follows another only when that one succeeded, so every copy
\* comes after the check has answered; no copy follows a batch delete; and the
\* delete of the source begins only when every object to copy has been copied.
C8_RenameStepsInOrder ==
  \A c \in Clients :
    LET r == call[c]
    IN  r.op = "rename" =>
          /\ Places(r, "check") = (IF r.log = <<>> THEN {} ELSE {1})
          /\ \A i \in 1..(Len(r.log) - 1) : r.log[i].ok
          /\ \A i \in Places(r, "delete"), j \in Places(r, "copy") : j < i
          /\ (r.pc \in {"del_list", "del_batch"} \/ Places(r, "delete") # {}) =>
               IF r.isFolder THEN r.listed # <<>> /\ r.i > Len(r.listed)
               ELSE Cardinality(Places(r, "copy")) = 1

\* A folder rename has resolved after the check, two copies or more, and a
\* batch delete.
C8_Witness ==
  \E c \in Clients :
    /\ call[c].op = "rename"
    /\ call[c].isFolder
    /\ call[c].result = "resolved"
    /\ Cardinality(Places(call[c], "copy")) >= 2
    /\ Places(call[c], "delete") # {}

\* C9: when a mutation settles, every cached listing is invalid if it
\* resolved and the cache is as it was if it rejected; and no cached listing
\* becomes invalid in a step in which no mutation resolves.
C9_InvalidatedIffResolved ==
  [][/\ \A c \in Clients :
          Settles(c) =>
            IF call'[c].result = "resolved"
            THEN \A p \in ListPrefixes : ~cache'[p].valid
            ELSE cache' = cache
     /\ (\E p \in ListPrefixes : cache[p].valid /\ ~cache'[p].valid) =>
          \E c \in Clients : Settles(c) /\ call'[c].result = "resolved"]_vars

\* A rename to another name resolved while a listing was cached, and the
\* listing is no longer valid.
C9_Witness ==
  \E c \in Clients :
    /\ call[c].op = "rename"
    /\ call[c].name1 # call[c].name2
    /\ call[c].pc = "done"
    /\ call[c].result = "resolved"
    /\ \E p \in call[c].seen : ~cache[p].valid

\* C10: whatever the bucket holds, the objects listContents returns for a
\* prefix hold no entry of size 0 whose path ends in "/"; nor do the objects
\* of a listing that a query has fetched.
C10_NoMarkerAmongObjects ==
  \A p \in ListPrefixes \cup Prefixes :
    \A o \in Range(listContents(store, p).objects)
             \cup (IF p \in ListPrefixes THEN Range(cache[p].data.objects) ELSE {}) :
      ~(o.size = 0 /\ EndsWith(o.path, <<"/">>))

\* A cached listing of a prefix whose page holds the folder's own marker
\* beside an object that is shown.
C10_Witness ==
  \E p \in ListPrefixes :
    /\ cache[p].valid
    /\ cache[p].data = listContents(store, p)
    /\ \E o \in Range(ListObjectsV2(store, p, <<"/">>, PageSize, <<>>).Contents) :
         o.Size = 0 /\ EndsWith(o.Key, <<"/">>)
    /\ listContents(store, p).objects # <<>>

\* Two file renames of different sources onto the same destination, both
\* resolved: each passed its destination check and copied.
BothRenamed(c1, c2) ==
  /\ c1 # c2
  /\ FileRenamed(call[c1])
  /\ FileRenamed(call[c2])
  /\ call[c1].oldKey # call[c2].oldKey
  /\ call[c1].newKey = call[c2].newKey

\* C11: no mutual exclusion, last writer wins.  When two file renames of
\* different sources onto one destination have both resolved, both found the
\* destination absent, both copied, the destination holds the body of the
\* source whose copy the store applied last, and both sources are deleted.
C11_LastWriterWins ==
  \A c1, c2 \in Clients :
    (BothRenamed(c1, c2) /\ call[c1].stamp < call[c2].stamp) =>
      /\ call[c1].log[1] = [req |-> "check", ok |-> TRUE]
      /\ call[c2].log[1] = [req |-> "check", ok |-> TRUE]
      /\ call[c1].newKey \notin DOMAIN call[c1].pre
      /\ call[c2].oldKey \in DOMAIN call[c2].pre
      /\ call[c2].newKey \in DOMAIN store
      /\ store[call[c2].newKey] = call[c2].pre[call[c2].oldKey]
      /\ call[c1].oldKey \notin DOMAIN store
      /\ call[c2].oldKey \notin DOMAIN store

\* Client 1 renamed x and client 2 renamed y onto the same name; both calls
\* resolved, client 1 copied last and its body is what the destination holds.
C11_Witness ==
  /\ BothRenamed(1, 2)
  /\ call[2].stamp < call[1].stamp
  /\ call[1].pre[call[1].oldKey] # call[2].pre[call[2].oldKey]
  /\ store[call[1].newKey] = call[1].pre[call[1].oldKey]
  /\ {call[1].oldKey, call[2].oldKey} \cap DOMAIN store = {}

\* C12: a rename whose oldKey and newKey are the same non-empty name resolves
\* at once: it issues no request, so no list, copy or batch delete, and the
\* bucket is as it was.
C12_RenameToSameNameIsNoOp ==
  \A c \in Clients :
    LET r == call[c]
    IN  RenamesToItself(r) =>
          /\ r.pc = "done"
          /\ r.result = "resolved"
          /\ r.log = <<>>
          /\ store = r.pre

\* An entry that exists was renamed to its own name: a valid file name, and the
\* call resolved.
C12_Witness ==
  \E c \in Clients :
    /\ RenamesToItself(call[c])
    /\ isValidFileName(call[c].name2)
    /\ call[c].result = "resolved"
    /\ (call[c].prefix \o call[c].name1) \in DOMAIN store

\* What folder-name validation is to reject: a name that holds one of
\* / \ : * ? " < > |, that begins or ends with white space, or that ends with
\* a period.
Forbidden(s) ==
  \/ \E i \in 1..Len(s) : s[i] \in {"/", "\\", ":", "*", "?", "\"", "<", ">", "|"}
  \/ s # <<>> /\ (IsSpace(s[1]) \/ IsSpace(s[Len(s)]))
  \/ s # <<>> /\ s[Len(s)] = "."

\* C13: isValidFolderName is falsy for every name, as passed in, that holds a
\* forbidden character, begins or ends with white space, or ends with a
\* period: createFolder rejects it as invalid.
C13_FolderNameValidationRejects ==
  \A c \in Clients :
    LET r == call[c]
    IN  (r.op = "create" /\ Forbidden(r.name1)) =>
          /\ ~isValidFolderName(r.name1)
          /\ r.result = "Invalid folder name!"

\* A seeding has ended on a put that failed: the put of folder number r.idx.
SeedPutFailed(r) ==
  /\ r.op = "seed"
  /\ r.pc = "done"
  /\ r.log # <<>>
  /\ ~r.log[Len(r.log)].ok
  /\ Len(r.log) > 1

\* The markers a seeding put before the put of folder number r.idx: those of
\* the folders before it that its listing did not show.
MarkersPut(r) ==
  {r.prefix \o defaultFolders[k] \o <<"/">> :
     k \in {m \in 1..(r.idx - 1) : defaultFolders[m] \notin r.existing}}

\* C14: when the put of the N-th missing folder fails, the seeding rejects, the
\* markers of the missing folders before it are in the bucket, which is
\* otherwise as it was, and no put follows the failed one: the log holds the
\* listing, N - 1 puts that succeeded and the one that failed.
C14_SeedingDoesNotRollBack ==
  \A c \in Clients :
    LET r == call[c]
    IN  SeedPutFailed(r) =>
          /\ r.result = "StoreError"
          /\ \A k \in MarkersPut(r) : k \in DOMAIN store /\ store[k] = 0
          /\ DOMAIN store = DOMAIN r.pre \cup MarkersPut(r)
          /\ \A k \in DOMAIN r.pre \ MarkersPut(r) : store[k] = r.pre[k]
          /\ Len(r.log) = Cardinality(MarkersPut(r)) + 2
          /\ \A i \in 2..Len(r.log) : r.log[i].req = "put"

\* The first missing folder was put, the put of the second failed, and the
\* first marker, which the bucket did not hold before, is still there.
C14_Witness ==
  \E c \in Clients :
    /\ SeedPutFailed(call[c])
    /\ \E k \in MarkersPut(call[c]) : k \in DOMAIN store /\ k \notin DOMAIN call[c].pre

\* A file rename has copied, and its delete of the old key has failed: the
\* request that failed is the listing under the old key or the batch delete
\* that names it, the first of the call.
DeleteOfOldKeyFailed(r) ==
  /\ r.op = "rename"
  /\ ~r.isFolder
  /\ r.pc = "done"
  /\ Places(r, "copy") # {}
  /\ \A i \in Places(r, "copy") : r.log[i].ok
  /\ ~r.log[Len(r.log)].ok
  /\ r.batches = 0

\* C15: when the copy of a file rename has succeeded and the delete of the old
\* key then fails, the call rejects and nothing is rolled back: the old key
\* and the new key are both in the bucket, both with the body the old key had,
\* and every other key is as it was.  The batch delete that can fail so is the
\* one that names the old key: the first batch of the call always does.
C15_RenameDoesNotRollBack ==
  \A c \in Clients :
    LET r == call[c]
    IN  /\ DeleteOfOldKeyFailed(r) =>
             /\ r.result = "StoreError"
             /\ r.oldKey \in DOMAIN r.pre
             /\ DOMAIN store = DOMAIN r.pre \cup {r.newKey}
             /\ store[r.oldKey] = r.pre[r.oldKey]
             /\ store[r.newKey] = r.pre[r.oldKey]
             /\ \A k \in DOMAIN r.pre \ {r.newKey} : store[k] = r.pre[k]
        /\ (r.op = "rename" /\ ~r.isFolder /\ r.pc = "del_batch" /\ r.batches = 0) =>
             r.oldKey \in Range(r.delKeys)

\* The batch delete of a renamed file failed after its copy: the call
\* rejected, and the bucket holds the file under both names.
C15_Witness ==
  \E c \in Clients :
    /\ DeleteOfOldKeyFailed(call[c])
    /\ call[c].log[Len(call[c].log)].req = "delete"
    /\ call[c].oldKey # call[c].newKey
    /\ {call[c].oldKey, call[c].newKey} \subseteq DOMAIN store
    /\ call[c].newKey \notin DOMAIN call[c].pre

\* The least number of batches of at most PageSize keys that hold n keys.
BatchesFor(n) == (n + PageSize - 1) \div PageSize

\* C16: every batch delete a call is about to issue names at most one page of
\* keys, at least one, and all of them under the prefix; and a recursive
\* delete that has resolved on n keys has issued at least ceil(n / PageSize)
\* batches.
C16_BatchesWithinPage ==
  \A c \in Clients :
    LET r == call[c]
        n == Cardinality(KeysUnder(r.pre, r.delPrefix))
    IN  /\ r.pc = "del_batch" =>
             /\ Len(r.delKeys) \in 1..PageSize
             /\ \A k \in Range(r.delKeys) : StartsWith(k, r.delPrefix)
        /\ (r.op = "delete" /\ r.pc = "done" /\ r.result = "resolved") =>
             /\ r.batches = Cardinality(Places(r, "delete"))
             /\ r.batches >= BatchesFor(n)

\* A delete of more keys than two pages hold has resolved after three batches
\* or more.
C16_Witness ==
  \E c \in Clients :
    /\ call[c].op = "delete"
    /\ call[c].result = "resolved"
    /\ Cardinality(KeysUnder(call[c].pre, call[c].delPrefix)) > 2 * PageSize
    /\ call[c].batches >= 3

\* A folder rename to another name that has resolved.
FolderRenamed(r) ==
  /\ r.op = "rename"
  /\ r.isFolder
  /\ r.name1 # r.name2
  /\ r.pc = "done"
  /\ r.result = "resolved"

\* C17: when a folder rename has resolved, every object that was under the old
\* folder when the call began is under the new folder at the same relative
\* path, with the same body.
C17_FolderRenameKeepsObjects ==
  \A c \in Clients :
    LET r == call[c]
    IN  FolderRenamed(r) =>
          \A k \in KeysUnder(r.pre, r.oldKey) :
            LET target == r.newKey \o Slice(k, Len(r.oldKey))
            IN  target \in DOMAIN store /\ store[target] = r.pre[k]

\* C18: when a file rename to another name has resolved, every key of the
\* bucket other than the old and the new one is as it was when the call began:
\* still there with the same body, and no other key has appeared.
C18_FileRenameTouchesTwoKeys ==
  \A c \in Clients :
    LET r == call[c]
    IN  FileRenamed(r) =>
          /\ \A k \in DOMAIN r.pre \ {r.oldKey, r.newKey} :
               k \in DOMAIN store /\ store[k] = r.pre[k]
          /\ DOMAIN store \subseteq DOMAIN r.pre \cup {r.newKey}

\* C19: a file rename is rejected with the destination-exists error only when
\* an object with exactly the key currentPrefix + newKey was in the bucket at
\* the time of the check.
C19_ConflictOnlyWhenDestinationExists ==
  \A c \in Clients :
    LET r == call[c]
    IN  (r.op = "rename" /\ ~r.isFolder /\ r.result = Conflict) =>
          /\ store = r.pre
          /\ r.newKey \in DOMAIN store

====
